---- MODULE Spec2Model ----
(***************************************************************************)
(* A model of backtesthub's Strategy (src/backtesthub/strategy.py): the    *)
(* indicator declaration I, the signal broadcast, the order pass-through,  *)
(* order_target and the bases/assets/hedges accessors.                     *)
(*                                                                         *)
(* Python values are encoded so that TLC can compare them:                 *)
(*   - an optional value is <<>> (None) or <<v>>;                          *)
(*   - an optional container is its name or the string "None";             *)
(*   - a float is a record [nan, v]: NaN, or the number v;                 *)
(*   - a dict is a sequence of <<key, value>> pairs with distinct keys, in *)
(*     insertion order.                                                    *)
(***************************************************************************)
EXTENDS Integers, Sequences, FiniteSets, TLC

(***************************************************************************)
(* Bounds of the model.                                                    *)
(***************************************************************************)
\* the longest array an indicator function returns
MaxLen == 1
\* the magnitude of the non-zero sample values of an indicator
Mag == 2
\* the most containers in the assets mapping handed to broadcast
MaxTargets == 2
\* order sizes, targets and position sizes range over -MaxSize..MaxSize
MaxSize == 2
\* thresholds range over 0..MaxThresh
MaxThresh == 1
\* the Broker's count of new_order calls is followed up to MaxOrders
MaxOrders == 1

(***************************************************************************)
(* The data containers (utils.bases) and the values they hold.             *)
(***************************************************************************)
None == "None"

Bases == {"b1", "b2"}
Assets == {"a1", "a2"}
Hedges == {"h1"}
Containers == Bases \cup Assets \cup Hedges
\* what I and broadcast are handed: Union[Base, Asset]
DataSet == Bases \cup Assets
\* what order and order_target are handed: Union[Asset, Hedge]
Tradables == {"a1", "h1"}

\* data.ticker: a base and the asset that trades it may carry one ticker
Ticker(c) ==
    CASE c \in {"b1", "a1"} -> "T1"
      [] c \in {"b2", "a2"} -> "T2"
      [] OTHER -> "T3"

Tickers == {Ticker(c) : c \in Containers}

\* len(data): b1, a1 and h1 share a timeline of one bar, b2 and a2 are empty
Length(c) == IF c \in {"b2", "a2"} THEN 0 ELSE 1

Num(n) == [nan |-> FALSE, v |-> n]
NaN == [nan |-> TRUE, v |-> 0]
Floats == {Num(0 - Mag), Num(0), Num(Mag), NaN}

\* the arrays an indicator function may return, of any length up to MaxLen
Arrays == UNION {[1..n -> Floats] : n \in 0..MaxLen}

\* Line(array=...): the Lines of a container are optional arrays
NoLine == <<>>
Line(array) == <<array>>
LineNames == {"signal", "strength"}
NoLines == [n \in LineNames |-> NoLine]

(***************************************************************************)
(* Python dicts.                                                           *)
(***************************************************************************)
Keys(dct) == {dct[i][1] : i \in 1..Len(dct)}

Values(dct) == [i \in 1..Len(dct) |-> dct[i][2]]

HasKey(dct, k) == k \in Keys(dct)

Get(dct, k) == dct[CHOOSE i \in 1..Len(dct) : dct[i][1] = k][2]

\* dict.update({k: v}): an existing key keeps its place and takes the new value
DictAccumulate(dct, k, v) == Append(dct, <<k, v>>)

DictUpdate(dct, k, v) ==
    IF HasKey(dct, k)
    THEN [i \in 1..Len(dct) |-> IF dct[i][1] = k THEN <<k, v>> ELSE dct[i]]
    ELSE Append(dct, <<k, v>>)

\* {k: v for k, v in mapping.items() if v is not None}
Unfiltered(mapping) == mapping

Configured(mapping) == SelectSeq(mapping, LAMBDA kv : kv[2] # None)

(***************************************************************************)
(* The state.                                                              *)
(***************************************************************************)
VARIABLES
    __mode,         \* Strategy.__mode
    __bases,        \* Strategy.__bases: role -> Base or None
    __assets,       \* Strategy.__assets: role -> Asset or None
    __hedges,       \* Strategy.__hedges: role -> Hedge or None
    __indicators,   \* Strategy.__indicators: ticker -> descriptor
    lines,          \* the signal and strength Lines of every container
    addLineChecks,  \* whether the containers' add_line checks the Line's length
    positions,      \* the Broker's book: ticker -> Position or None
    norders,        \* the Broker's count of new_order calls
    lastOrder,      \* the arguments of the Broker's last new_order call
    view,           \* what the last accessor call returned
    last,           \* the last call of the Strategy and how it ended
    declared        \* history: per ticker, the descriptor of the last I call
                    \* that returned

vars == <<__mode, __bases, __assets, __hedges, __indicators, lines,
          addLineChecks, positions, norders, lastOrder, view, last, declared>>

strategyVars == <<__mode, __bases, __assets, __hedges>>
brokerVars == <<positions, norders, lastOrder>>

\* utils.config._MODE
_MODE == [V |-> "Vectorized", E |-> "Event-Based"]
Modes == {_MODE.V, _MODE.E}

Ok == "None"

\* the record of a call: the operation, the container it was handed, the
\* error it raised (None: it returned) and the error's message or the call's
\* other arguments; for a call of I also the Lines of the containers before
\* it, the length of the array func returned (-1: func raised) and, when I
\* returned, the array; for order_target whether it constructed a Position
Call(op, data, err, msg) ==
    [op |-> op, data |-> data, err |-> err, msg |-> msg,
     before |-> <<>>, retlen |-> 0 - 1, ret |-> <<>>, constructed |-> FALSE]

(***************************************************************************)
(* Strategy.__init__                                                       *)
(***************************************************************************)
FullConfig ==
    /\ __bases = << <<"base", "b1">>, <<"aux", "b2">> >>
    /\ __assets = << <<"a1", "a1">>, <<"a2", "a2">> >>
    /\ __hedges = << <<"h1", "h1">> >>

\* the constructor's own assignments, whatever mappings it is handed
Constructed ==
    /\ __mode = _MODE.V
    /\ __indicators = <<>>
    /\ view = <<>>
    /\ last = Call("__init__", None, Ok, <<>>)
    /\ declared = [t \in Tickers |-> <<>>]

\* a Broker that has seen no order
NewBroker ==
    /\ positions = [t \in Tickers |-> <<>>]
    /\ norders = 0
    /\ lastOrder = <<>>

Init ==
    /\ Constructed
    /\ FullConfig
    /\ NewBroker
    /\ lines = [c \in Containers |-> NoLines]
    /\ addLineChecks = FALSE

(***************************************************************************)
(* Strategy.I                                                              *)
(***************************************************************************)
Funcs == {"sma"}
ArgTuples == {<<>>, <<20>>}

\* utils.checks.derive_params: a canonical form of the arguments
derive_params(args) == args

\* f"{func.__name__}({params})"
Name(func, args) == <<func, derive_params(args)>>

\* what func(data, *args) does: it raises, or returns an array
Raises == [raised |-> TRUE, value |-> <<>>]
Returns(array) == [raised |-> FALSE, value |-> array]
Outcomes == {Raises} \cup {Returns(a) : a \in Arrays}

\* numpy.sign of one float
Sign(x) ==
    IF x.nan THEN NaN
    ELSE Num(IF x.v > 0 THEN 1 ELSE IF x.v < 0 THEN 0 - 1 ELSE 0)

\* np.sign(ind)
Unsigned(ind) == ind

SignalOf(ind) == [i \in 1..Len(ind) |-> Sign(ind[i])]

\* self.__mode == _MODE["V"]
AnyMode(m) == TRUE

ModeSupported(m) == m = _MODE.V

\* len(data) == len(ind)
AnyLength(data, ind) == TRUE

SameLength(data, ind) == Length(data) = Len(ind)

\* self.__indicators.update({ticker: name})
IndicatorsAccumulate(dct, ticker, name) == DictAccumulate(dct, ticker, name)

IndicatorsUpdate(dct, ticker, name) == DictUpdate(dct, ticker, name)

\* data.add_line(name, line): overwrite by name; a checking container refuses
\* a Line that is not as long as its timeline
AddLineFails(c, line) == addLineChecks /\ Len(line[1]) # Length(c)

AddLine(ls, c, name, line) == [ls EXCEPT ![c][name] = line]

Called(func, data, args, out, err, msg) ==
    [Call("I", data, err, msg) EXCEPT
        !.before = lines,
        !.retlen = IF out.raised THEN 0 - 1 ELSE Len(out.value),
        !.ret = IF err = Ok THEN out.value ELSE <<>>]

I(func, data, args, out) ==
    /\ UNCHANGED <<strategyVars, addLineChecks, brokerVars, view>>
    /\ IF ~ModeSupported(__mode)
       THEN /\ last' = Called(func, data, args, out, "NotImplementedError", <<__mode>>)
            /\ UNCHANGED <<__indicators, declared, lines>>
       ELSE IF out.raised
       THEN /\ last' = Called(func, data, args, out, "Exception", <<>>)
            /\ UNCHANGED <<__indicators, declared, lines>>
       ELSE IF ~SameLength(data, out.value)
       THEN /\ last' = Called(func, data, args, out, "ValueError", Name(func, args))
            /\ UNCHANGED <<__indicators, declared, lines>>
       ELSE LET ind == out.value
                strength == Line(ind)
                signal == Line(SignalOf(ind))
            IN  /\ __indicators' =
                       IndicatorsUpdate(__indicators, Ticker(data), Name(func, args))
                /\ IF AddLineFails(data, signal)
                   THEN /\ lines' = lines
                        /\ UNCHANGED declared
                        /\ last' = Called(func, data, args, out, "ValueError", <<"add_line">>)
                   ELSE IF AddLineFails(data, strength)
                   THEN /\ lines' = AddLine(lines, data, "signal", signal)
                        /\ UNCHANGED declared
                        /\ last' = Called(func, data, args, out, "ValueError", <<"add_line">>)
                   ELSE /\ lines' = AddLine(AddLine(lines, data, "signal", signal),
                                            data, "strength", strength)
                        /\ declared' = [declared EXCEPT ![Ticker(data)] = <<Name(func, args)>>]
                        /\ last' = Called(func, data, args, out, Ok, Name(func, args))

ICall ==
    \E func \in Funcs, data \in DataSet, args \in ArgTuples, out \in Outcomes :
        I(func, data, args, out)

(***************************************************************************)
(* Strategy.base, bases, assets, hedges, indicators (the accessors)        *)
(***************************************************************************)
\* self.__bases.get("base")
base == IF HasKey(__bases, "base") THEN Get(__bases, "base") ELSE None

bases == Configured(__bases)

assets == Configured(__assets)

hedges == Configured(__hedges)

indicators == __indicators

Read(op, value) ==
    /\ view' = value
    /\ last' = Call(op, None, Ok, <<>>)
    /\ UNCHANGED <<strategyVars, __indicators, declared, lines, addLineChecks,
                   brokerVars>>

ReadBase == Read("base", <<base>>)

ReadBases == Read("bases", bases)

ReadAssets == Read("assets", assets)

ReadHedges == Read("hedges", hedges)

ReadIndicators == Read("indicators", indicators)

(***************************************************************************)
(* Strategy.broadcast                                                      *)
(***************************************************************************)
\* `not base`: None is falsy, and so is a container whose len() is 0 (Python
\* takes the truth of an object without __bool__ from its __len__)
Falsy(b) == b = None \/ Length(b) = 0

\* `not assets`: None and the empty dict are falsy
NoDict(dct) == dct = <<>>

\* base.signal, base.strength: a Line the container does not hold cannot be read
Missing(ls, c, name) == ls[c][name] = NoLine

\* for asset in assets.values(): asset.add_line(...); asset.add_line(...)
RECURSIVE BroadcastLoop(_, _, _)
BroadcastLoop(ls, b, targets) ==
    IF targets = <<>> THEN [lines |-> ls, err |-> Ok]
    ELSE LET asset == Head(targets) IN
         IF Missing(ls, b, "signal")
         THEN [lines |-> ls, err |-> "AttributeError"]
         ELSE IF AddLineFails(asset, ls[b]["signal"])
         THEN [lines |-> ls, err |-> "ValueError"]
         ELSE LET l1 == AddLine(ls, asset, "signal", ls[b]["signal"]) IN
              IF Missing(l1, b, "strength")
              THEN [lines |-> l1, err |-> "AttributeError"]
              ELSE IF AddLineFails(asset, l1[b]["strength"])
              THEN [lines |-> l1, err |-> "ValueError"]
              ELSE BroadcastLoop(AddLine(l1, asset, "strength", l1[b]["strength"]),
                                 b, Tail(targets))

\* the record of a broadcast call: the base and the targets it was handed
Broadcasted(b, dct) == Call("broadcast", b, Ok, Values(dct))

broadcast(b, dct) ==
    /\ UNCHANGED <<strategyVars, __indicators, declared, addLineChecks,
                   brokerVars, view>>
    /\ IF Falsy(b) /\ ~HasKey(bases, "base")
       THEN /\ last' = [Broadcasted(b, dct) EXCEPT !.err = "KeyError"]
            /\ lines' = lines
       ELSE LET source == IF Falsy(b) THEN Get(bases, "base") ELSE b
                targets == Values(IF NoDict(dct) THEN assets ELSE dct)
                r == BroadcastLoop(lines, source, targets)
            IN  /\ lines' = r.lines
                /\ last' = [Broadcasted(b, dct) EXCEPT !.err = r.err]

\* the mappings broadcast is handed: up to MaxTargets distinct containers,
\* each under its own name
TargetSeqs ==
    {s \in UNION {[1..n -> DataSet] : n \in 0..MaxTargets} :
        \A i, j \in 1..Len(s) : s[i] = s[j] => i = j}

TargetDicts == {[i \in 1..Len(s) |-> <<s[i], s[i]>>] : s \in TargetSeqs}

BroadcastCall ==
    \E b \in DataSet \cup {None}, dct \in TargetDicts : broadcast(b, dct)

(***************************************************************************)
(* The Broker (broker.py) and Position (position.py)                       *)
(***************************************************************************)
Sizes == (0 - MaxSize)..MaxSize
Prices == {<<>>, <<10>>}
Targets == {<<>>} \cup {<<t>> : t \in Sizes}
Threshes == 0..MaxThresh
Methods == {"absolute", "relative"}

\* Broker.get_position(ticker)
get_position(ticker) == positions[ticker]

\* Broker.new_order(data, size, limit)
new_order(args) ==
    /\ norders' = norders + 1
    /\ lastOrder' = <<args>>
    /\ UNCHANGED positions

\* the Broker's own bookkeeping: a fill opens or re-sizes a Position
BrokerUpdate ==
    \E data \in Tradables, size \in Sizes :
        /\ positions' = [positions EXCEPT ![Ticker(data)] = <<[size |-> size]>>]
        /\ last' = Call("fill", data, Ok, <<>>)
        /\ UNCHANGED <<strategyVars, __indicators, declared, lines,
                       addLineChecks, norders, lastOrder, view>>

(***************************************************************************)
(* Strategy.order                                                          *)
(***************************************************************************)
MarketOrder(data, size, price) == [data |-> data, size |-> size, limit |-> <<>>]

OrderArgs(data, size, price) == [data |-> data, size |-> size, limit |-> price]

order(data, size, price) ==
    /\ norders < MaxOrders
    /\ new_order(OrderArgs(data, size, price))
    /\ last' = Call("order", data, Ok, <<size, price>>)
    /\ UNCHANGED <<strategyVars, __indicators, declared, lines, addLineChecks,
                   view>>

OrderCall ==
    \E data \in Tradables, size \in Sizes, price \in Prices :
        order(data, size, price)

(***************************************************************************)
(* Strategy.order_target                                                   *)
(***************************************************************************)
\* position is None
Always(position) == TRUE

IsAbsent(position) == position = <<>>

order_target(data, target, price, thresh, method) ==
    LET position == get_position(Ticker(data)) IN
    /\ last' = [Call("order_target", data, Ok, <<>>)
                    EXCEPT !.constructed = IsAbsent(position)]
    /\ UNCHANGED <<strategyVars, __indicators, declared, lines, addLineChecks,
                   brokerVars, view>>

OrderTargetCall ==
    \E data \in Tradables, target \in Targets, price \in Prices,
       thresh \in Threshes, method \in Methods :
        order_target(data, target, price, thresh, method)

(***************************************************************************)
(* The specifications.                                                     *)
(***************************************************************************)
Next ==
    \/ ICall
    \/ BroadcastCall
    \/ OrderCall
    \/ OrderTargetCall
    \/ BrokerUpdate
    \/ ReadBase
    \/ ReadBases
    \/ ReadAssets
    \/ ReadHedges
    \/ ReadIndicators

\* the whole Strategy, from its construction
Spec == Init /\ [][Next]_vars

\* the Lines an I call leaves on a container
Declared(array) ==
    [n \in LineNames |->
        IF n = "strength" THEN Line(array) ELSE Line(SignalOf(array))]

\* the containers as a Strategy may find or leave them: each holds no
\* indicator Lines, or the Lines of some I call on it
PriorOf(c) ==
    IF c \in DataSet
    THEN {NoLines} \cup {Declared(a) : a \in [1..Length(c) -> Floats]}
    ELSE {NoLines}

PriorLines ==
    {ls \in [Containers -> UNION {PriorOf(c) : c \in Containers}] :
        \A c \in Containers : ls[c] \in PriorOf(c)}

\* the indicator declarations of init()
NextI == ICall

SpecI == Init /\ [][NextI]_vars

\* I under a mode other than the supported one, on containers that may hold
\* Lines already
InitMode ==
    /\ __mode \in Modes \ {_MODE.V}
    /\ __indicators = <<>>
    /\ view = <<>>
    /\ last = Call("__init__", None, Ok, <<>>)
    /\ declared = [t \in Tickers |-> <<>>]
    /\ FullConfig
    /\ NewBroker
    /\ lines \in PriorLines
    /\ addLineChecks = FALSE

SpecMode == InitMode /\ [][NextI]_vars

\* broadcast on containers that hold the Lines of earlier I calls, with a
\* Line-attachment primitive that checks the length or does not
InitBroadcast ==
    /\ Constructed
    /\ FullConfig
    /\ NewBroker
    /\ lines \in PriorLines
    /\ addLineChecks \in BOOLEAN

NextBroadcast == BroadcastCall

SpecBroadcast == InitBroadcast /\ [][NextBroadcast]_vars

\* the orders of next(): init() has declared an indicator on the base and
\* broadcast it to the asset, or has declared nothing
InitOrder ==
    /\ __mode = _MODE.V
    /\ view = <<>>
    /\ last = Call("__init__", None, Ok, <<>>)
    /\ declared = [t \in Tickers |-> <<>>]
    /\ FullConfig
    /\ NewBroker
    /\ addLineChecks = FALSE
    /\ \/ /\ __indicators = <<>>
          /\ lines = [c \in Containers |-> NoLines]
       \/ /\ __indicators = IndicatorsUpdate(<<>>, Ticker("b1"), Name("sma", <<20>>))
          /\ lines = [c \in Containers |->
                         IF c \in {"b1", "a1"} THEN Declared(<<Num(Mag)>>)
                         ELSE NoLines]

NextOrder ==
    \/ OrderCall
    \/ OrderTargetCall
    \/ BrokerUpdate

SpecOrder == InitOrder /\ [][NextOrder]_vars

\* the accessors, for every mapping the constructor may be handed
ConfigsOf(roles, cs) ==
    {m \in UNION {[1..n -> roles \X (cs \cup {None})] : n \in 0..Cardinality(roles)} :
        \A i, j \in 1..Len(m) : m[i][1] = m[j][1] => i = j}

InitAccessors ==
    /\ Constructed
    /\ NewBroker
    /\ lines = [c \in Containers |-> NoLines]
    /\ addLineChecks = FALSE
    /\ __bases \in ConfigsOf({"base", "aux"}, {"b1"})
    /\ __assets \in ConfigsOf({"x", "y"}, {"a1"})
    /\ __hedges \in ConfigsOf({"h"}, {"h1"})

NextAccessors ==
    \/ ReadBase
    \/ ReadBases
    \/ ReadAssets
    \/ ReadHedges
    \/ ReadIndicators

SpecAccessors == InitAccessors /\ [][NextAccessors]_vars

(***************************************************************************)
(* The claims.                                                             *)
(***************************************************************************)
Abs(n) == IF n < 0 THEN 0 - n ELSE n

SizeOf(position) == IF position = <<>> THEN 0 ELSE position[1].size

TargetOf(target) == IF target = <<>> THEN 0 ELSE target[1]

\* C1: order_target(data, target, price, thresh, "absolute") submits exactly
\* one order of size target - size (target None counted as 0, no Position as
\* size 0) at the given price when |target - size| > thresh, and no order when
\* |target - size| is below thresh.
C1_OrderTargetSubmits ==
    [][\A data \in Tradables, target \in Targets, price \in Prices,
          thresh \in Threshes :
          order_target(data, target, price, thresh, "absolute") =>
              LET delta == TargetOf(target) - SizeOf(get_position(Ticker(data)))
              IN  /\ Abs(delta) > thresh =>
                         /\ norders' = norders + 1
                         /\ lastOrder' =
                                <<[data |-> data, size |-> delta, limit |-> price]>>
                  /\ Abs(delta) < thresh => norders' = norders]_vars

\* C2: order_target constructs a Position exactly when the Broker's
\* get_position returned none for the ticker; when the Broker holds one,
\* none is constructed.
C2_PositionOnlyWhenAbsent ==
    last.op = "order_target" =>
        (last.constructed <=> get_position(Ticker(last.data)) = <<>>)

C2_Reused ==
    /\ last.op = "order_target"
    /\ get_position(Ticker(last.data)) # <<>>
    /\ ~last.constructed

\* C3: when func returns an array whose length is not the container's, I
\* fails with the length-mismatch ValueError and the container's signal and
\* strength Lines are those it held before the call.
C3_LengthMismatchFails ==
    (last.op = "I" /\ last.retlen >= 0 /\ last.retlen # Length(last.data)) =>
        /\ last.err = "ValueError"
        /\ lines[last.data] = last.before[last.data]

C3_MismatchOnDeclared ==
    /\ last.op = "I"
    /\ last.retlen >= 0
    /\ last.retlen # Length(last.data)
    /\ last.err = "ValueError"
    /\ lines[last.data] # NoLines

IsSignOf(s, x) ==
    /\ s \in {Num(0 - 1), Num(0), Num(1)}
    /\ ~x.nan
    /\ x.v > 0 <=> s.v = 1
    /\ x.v < 0 <=> s.v = 0 - 1

\* C4 as claimed: after I returns, strength is the array func returned and
\* signal holds, at every index, the sign of that array's value there: one of
\* -1, 0, +1.
C4_SignalIsSign ==
    (last.op = "I" /\ last.err = Ok) =>
        LET held == lines[last.data] IN
        /\ held["strength"] = Line(last.ret)
        /\ held["signal"] # NoLine
        /\ Len(held["signal"][1]) = Len(last.ret)
        /\ \A i \in 1..Len(last.ret) : IsSignOf(held["signal"][1][i], last.ret[i])

\* C4 as amended: after I returns, strength is the array func returned and
\* signal holds, at every index, the sign (-1, 0 or +1) of that array's value
\* there when the value is a number, and NaN when the value is NaN.
C4_SignalIsSignOrNaN ==
    (last.op = "I" /\ last.err = Ok) =>
        LET held == lines[last.data] IN
        /\ held["strength"] = Line(last.ret)
        /\ held["signal"] # NoLine
        /\ Len(held["signal"][1]) = Len(last.ret)
        /\ \A i \in 1..Len(last.ret) :
               IF last.ret[i].nan
               THEN held["signal"][1][i].nan
               ELSE IsSignOf(held["signal"][1][i], last.ret[i])

C4_NegativeDeclared ==
    /\ last.op = "I"
    /\ last.err = Ok
    /\ Len(last.ret) = 1
    /\ last.ret[1] = Num(0 - Mag)
    /\ lines[last.data]["signal"] = Line(<<Num(0 - 1)>>)

\* C5: the indicators mapping holds at most one entry per ticker, and a
\* ticker's entry is the descriptor of the last I call that returned for a
\* container of that ticker (no entry when there was none).
C5_OneDescriptorPerTicker ==
    \A t \in Tickers :
        /\ Cardinality({i \in 1..Len(__indicators) : __indicators[i][1] = t}) <= 1
        /\ declared[t] = <<>> => ~HasKey(__indicators, t)
        /\ declared[t] # <<>> =>
               /\ HasKey(__indicators, t)
               /\ Get(__indicators, t) = declared[t][1]

C5_Redeclared ==
    /\ last.op = "I"
    /\ last.err = Ok
    /\ last.before[last.data] # NoLines
    /\ \E c \in DataSet \ {last.data} :
           Ticker(c) = Ticker(last.data) /\ lines[c] # NoLines
    /\ Get(__indicators, Ticker(last.data)) = last.msg
    /\ Len(__indicators) = 2

HoldsLines(c) == \A n \in LineNames : lines[c][n] # NoLine

\* C6: after broadcast(base=b, assets={x: a}) with a as long as b, the signal
\* and strength Lines of a equal those of b, whatever a held before. (Stated
\* for a Base b and an Asset a, with Lines declared on every Base.)
C6_BroadcastCopies ==
    \A b \in Bases, a \in Assets :
        (/\ last.op = "broadcast"
         /\ last.data = b
         /\ last.msg = <<a>>
         /\ Length(a) = Length(b)
         /\ \A c \in Bases : HoldsLines(c)) =>
            /\ last.err = Ok
            /\ lines[a] = lines[b]

\* C7: broadcast fails rather than attach Lines to a target whose timeline
\* is not as long as the source's, also when add_line does not check: no
\* container ever holds a signal or strength Line that is not as long as its
\* own timeline.
C7_NoMisalignedLine ==
    \A c \in Containers, n \in LineNames :
        lines[c][n] # NoLine => Len(lines[c][n][1]) = Length(c)

\* C8: under a mode other than the vectorized one, every call of I fails
\* with the NotImplementedError that names the mode, and no Line of any
\* container is added or overwritten.
C8_UnsupportedModeFails ==
    (last.op = "I" /\ __mode # _MODE.V) =>
        /\ last.err = "NotImplementedError"
        /\ last.msg = <<__mode>>
        /\ lines = last.before

C8_RefusedOnDeclared ==
    /\ last.op = "I"
    /\ __mode # _MODE.V
    /\ last.err = "NotImplementedError"
    /\ lines[last.data] # NoLines

Private(op) ==
    CASE op = "bases" -> __bases
      [] op = "assets" -> __assets
      [] op = "hedges" -> __hedges

\* C9: the mappings the bases, assets and hedges accessors return hold no
\* None value, hold every entry of the constructor's mapping whose value is
\* not None, and hold nothing else.
C9_AccessorsDropNone ==
    last.op \in {"bases", "assets", "hedges"} =>
        LET given == Private(last.op) IN
        /\ \A i \in 1..Len(view) : view[i][2] # None
        /\ \A i \in 1..Len(view) : \E j \in 1..Len(given) : view[i] = given[j]
        /\ \A j \in 1..Len(given) :
               given[j][2] # None => \E i \in 1..Len(view) : view[i] = given[j]

C9_NoneDropped ==
    /\ last.op = "assets"
    /\ Len(__assets) = 2
    /\ __assets[1][2] = None
    /\ __assets[2][2] # None
    /\ view = <<__assets[2]>>

\* C10: a call order(data, size, price) makes exactly one new_order call,
\* with that data, that size and limit = price, and leaves the indicators
\* mapping, the Lines of every container and the Broker's positions as they
\* were.
C10_OrderPassesThrough ==
    [][last'.op = "order" =>
          /\ norders' = norders + 1
          /\ lastOrder' = <<[data |-> last'.data, size |-> last'.msg[1],
                             limit |-> last'.msg[2]]>>
          /\ UNCHANGED <<__indicators, lines, positions>>]_vars

C10_LimitOrderSent ==
    /\ last.op = "order"
    /\ norders >= 1
    /\ lastOrder # <<>>
    /\ lastOrder[1].limit # <<>>
    /\ lastOrder[1].size < 0
    /\ lines["a1"] # NoLines
====
